---- MODULE Spec2Model ----
(***************************************************************************)
(* Model of weather.py: a command line is scanned for the display          *)
(* language, parsed, resolved to coordinates by one of two geocoders, a    *)
(* forecast is fetched over the same transport session and rendered as     *)
(* text or JSON.  Every run ends with an exit code.                        *)
(*                                                                         *)
(* JSON values are tagged records; numbers are integers (the inputs that   *)
(* are enumerated hold whole numbers only, so "%.1f" loses nothing).       *)
(***************************************************************************)
EXTENDS Integers, Sequences, FiniteSets, TLC

VARIABLES
    pc,         \* position of main: "scan","parse","geocode","forecast","output","exit"
    argv,       \* sys.argv[1:]
    _lang,      \* module global _lang
    parser,     \* language the parser's help strings were looked up in ("none" before it is built)
    args,       \* argparse namespace
    session,    \* [created, closed]: how often the session was created / closed
    requests,   \* outbound calls issued: [url, closed] (closed: session already closed)
    response,   \* outcome of the current function's session.get
    result,     \* geocoding result picked by the current search function
    coords,     \* (lat, lon, location) handed back to main
    weather,    \* payload returned by get_weather
    textOut,    \* value of format_weather
    jsonOut,    \* value of format_weather_json
    emitted,    \* user-facing texts written so far
    exitCode    \* process exit status, Running while the process runs

vars == <<pc, argv, _lang, parser, args, session, requests, response, result,
          coords, weather, textOut, jsonOut, emitted, exitCode>>

----------------------------------------------------------------------------
(* Bounds of the model *)

MaxArgs == 3
MaxResults == 3
MaxDays == 2

(* Exit codes *)
EXIT_OK == 0
EXIT_LOCATION_NOT_FOUND == 1
EXIT_NETWORK_ERROR == 2
EXIT_API_ERROR == 3
EXIT_INVALID_INPUT == 4
EXIT_AMBIGUOUS == 5
MAX_RETRIES == 3

\* exitCode while the process runs: no exit status
Running == EXIT_OK - 1
\* status of an interpreter that ends on an uncaught exception
EXIT_UNCAUGHT == 1
\* status of argparse's parser.error
EXIT_ARGPARSE == 2

----------------------------------------------------------------------------
(* JSON values *)

Null == [t |-> "null", n |-> 0, s |-> ""]
NaN == [t |-> "nan", n |-> 0, s |-> ""]
Missing == [t |-> "missing", n |-> 0, s |-> ""]
List == [t |-> "list", n |-> 0, s |-> ""]
Num(x) == [t |-> "num", n |-> x, s |-> ""]
Str(x) == [t |-> "str", n |-> 0, s |-> x]

\* dict.get(key): an absent key reads as None
Get(v) == IF v.t = "missing" THEN Null ELSE v

\* Python's a != b on JSON values: NaN differs from everything, itself included
PyNe(a, b) == a.t = "nan" \/ b.t = "nan" \/ a # b

\* Python truthiness
Truthy(v) ==
    CASE v.t = "null" -> FALSE
      [] v.t = "missing" -> FALSE
      [] v.t = "num" -> v.n # 0
      [] v.t = "str" -> v.s # ""
      [] v.t = "list" -> FALSE
      [] OTHER -> TRUE

----------------------------------------------------------------------------
(* Command line *)

Tokens == {"--lang", "-L", "--lang=de", "-Lde", "-Len", "de", "en",
           "Berlin", "--plz=10115", "--land=de", "-j", "-h"}

OptionLike(a) == a \notin {"de", "en", "Berlin"}

NoArgs == [ok |-> FALSE, help |-> FALSE, ort |-> "", plz |-> "", land |-> "",
           tage |-> 1, json |-> FALSE, lang |-> "en"]

\* the scan of main for the language option; stops at the first occurrence
RECURSIVE PreScan(_, _, _)
PreScan(av, i, cur) ==
    IF i > Len(av) THEN cur
    ELSE IF av[i] \in {"--lang", "-L"} /\ i + 1 <= Len(av)
         THEN (IF av[i + 1] \in {"en", "de"} THEN av[i + 1] ELSE cur)
    ELSE IF av[i] = "--lang=de" THEN "de"
    ELSE PreScan(av, i + 1, cur)

\* parser.parse_args(): the namespace, or a parse error (ok = FALSE), or the
\* help action (help = TRUE), which ends the parse where it stands
RECURSIVE ParseFrom(_, _, _, _, _)
ParseFrom(av, i, ns, pending, extras) ==
    IF i > Len(av)
    THEN (IF pending \/ extras THEN NoArgs ELSE ns)
    ELSE LET a == av[i] IN
         IF pending
         THEN (IF OptionLike(a) \/ a \notin {"de", "en"} THEN NoArgs
               ELSE ParseFrom(av, i + 1, [ns EXCEPT !.lang = a], FALSE, extras))
         ELSE CASE a \in {"--lang", "-L"} -> ParseFrom(av, i + 1, ns, TRUE, extras)
                [] a \in {"--lang=de", "-Lde"} ->
                       ParseFrom(av, i + 1, [ns EXCEPT !.lang = "de"], FALSE, extras)
                [] a = "-Len" -> ParseFrom(av, i + 1, [ns EXCEPT !.lang = "en"], FALSE, extras)
                [] a = "--plz=10115" ->
                       ParseFrom(av, i + 1, [ns EXCEPT !.plz = "10115"], FALSE, extras)
                [] a = "--land=de" ->
                       ParseFrom(av, i + 1, [ns EXCEPT !.land = "de"], FALSE, extras)
                [] a = "-j" -> ParseFrom(av, i + 1, [ns EXCEPT !.json = TRUE], FALSE, extras)
                [] a = "-h" -> [ns EXCEPT !.help = TRUE]
                [] OTHER -> IF ns.ort = ""
                            THEN ParseFrom(av, i + 1, [ns EXCEPT !.ort = a], FALSE, extras)
                            ELSE ParseFrom(av, i + 1, ns, FALSE, TRUE)

parse_args(av) == ParseFrom(av, 1, [NoArgs EXCEPT !.ok = TRUE], FALSE, FALSE)

----------------------------------------------------------------------------
(* User-facing text: the key looked up and the language it was looked up in *)

Text(stream, key, lang, label) ==
    [stream |-> stream, key |-> key, lang |-> lang, label |-> label]

\* error_exit: "{t('error')}: {message}" on stderr
ErrorText(key, lang) == Text("stderr", key, lang, TRUE)

NoWeather == [daily |-> <<>>, hourly |-> <<>>]
NoResponse == [exc |-> "unset", status |-> 0, json |-> FALSE, results |-> <<>>,
               data |-> NoWeather]
NoResult == [latitude |-> Missing, longitude |-> Missing, name |-> "", country |-> "",
             cc |-> ""]
NoCoords == [lat |-> Missing, lon |-> Missing, location |-> <<>>]

----------------------------------------------------------------------------
(* The transport session *)

create_session(s) == [s EXCEPT !.created = @ + 1]

\* session.close() in the finally clause of main
SessionClose(s) == [s EXCEPT !.closed = @ + 1]

\* status codes the Retry policy of the session retries on
StatusForcelist == {429, 500, 502, 503, 504}

\* What the network does to one session.get: `forced` responses in a row
\* carry the retryable status `status`, after that the call ends as `final`
Finals == {"ok", "http404", "Timeout", "ConnectionError", "RequestException"}
Transports ==
    [forced : 0 .. (MAX_RETRIES + 1), status : StatusForcelist, final : Finals]

\* session.get(...) followed by response.raise_for_status(): the exception
\* raised ("none": a 2xx response) and the last HTTP status received.
\* A retryable status is retried MAX_RETRIES times; when the retries are used
\* up the adapter raises RetryError, a RequestException that is no HTTPError.
SessionGet(tr) ==
    IF tr.forced > MAX_RETRIES
    THEN [exc |-> "RetryError", status |-> tr.status]
    ELSE CASE tr.final = "ok" -> [exc |-> "none", status |-> 200]
           [] tr.final = "http404" -> [exc |-> "HTTPError", status |-> 404]
           [] OTHER -> [exc |-> tr.final, status |-> 0]

\* the except clauses around session.get: message key and exit code
HandleRequestError(exc, timeoutKey) ==
    CASE exc = "Timeout" -> [key |-> timeoutKey, code |-> EXIT_NETWORK_ERROR]
      [] exc = "ConnectionError" -> [key |-> "no_connection", code |-> EXIT_NETWORK_ERROR]
      [] exc = "HTTPError" -> [key |-> "api_error", code |-> EXIT_API_ERROR]
      [] OTHER -> [key |-> "request_error", code |-> EXIT_NETWORK_ERROR]

----------------------------------------------------------------------------
(* Outcome of a function called by main: it returns, or leaves through
   sys.exit (error_exit or a direct call), or raises *)

Returns(r, c, w) ==
    [how |-> "return", code |-> Running, out |-> <<>>, result |-> r, coords |-> c,
     weather |-> w]
Exits(code, out, r) ==
    [how |-> "exit", code |-> code, out |-> out, result |-> r, coords |-> NoCoords,
     weather |-> NoWeather]
Raises(r) ==
    [how |-> "raise", code |-> EXIT_UNCAUGHT,
     out |-> <<Text("stderr", "traceback", "none", FALSE)>>, result |-> r,
     coords |-> NoCoords, weather |-> NoWeather]

\* error_exit(message, code)
error_exit(key, code, lang) == Exits(code, <<ErrorText(key, lang)>>, NoResult)

----------------------------------------------------------------------------
(* search_by_name *)

\* variant: only the second result is compared with the first
has_different_second_only(results) ==
    \/ PyNe(Get(results[2].latitude), Get(results[1].latitude))
    \/ PyNe(Get(results[2].longitude), Get(results[1].longitude))

\* lines 241-245: some later result differs from the first in latitude or longitude
has_different(results) ==
    \E i \in 2 .. Len(results) :
        \/ PyNe(Get(results[i].latitude), Get(results[1].latitude))
        \/ PyNe(Get(results[i].longitude), Get(results[1].longitude))

\* variant: "not lat or not lon", which takes a coordinate of 0 for a missing one
missing_coords_falsy(first) ==
    ~Truthy(Get(first.latitude)) \/ ~Truthy(Get(first.longitude))

\* line 253: lat is None or lon is None
missing_coords(first) ==
    Get(first.latitude).t = "null" \/ Get(first.longitude).t = "null"

\* lines 257-259: "{name}, {country}", or the name alone
full_name(first, name) ==
    LET location_name == IF first.name = "" THEN name ELSE first.name IN
    IF first.country # "" THEN <<location_name, ", ", first.country>>
    ELSE <<location_name>>

search_by_name(resp, name, lang) ==
    IF resp.exc # "none"
    THEN LET h == HandleRequestError(resp.exc, "timeout_location") IN
         error_exit(h.key, h.code, lang)
    ELSE IF ~resp.json THEN error_exit("invalid_response", EXIT_API_ERROR, lang)
    ELSE IF resp.results = <<>>
    THEN error_exit("location_not_found", EXIT_LOCATION_NOT_FOUND, lang)
    ELSE LET first == resp.results[1] IN
         IF Len(resp.results) > 1 /\ has_different(resp.results)
         THEN Exits(EXIT_AMBIGUOUS,
                    <<Text("stderr", "ambiguous_name", lang, FALSE),
                      Text("stderr", "use_plz", lang, FALSE)>>, NoResult)
         ELSE IF missing_coords(first)
         THEN [error_exit("missing_coords", EXIT_API_ERROR, lang) EXCEPT !.result = first]
         ELSE Returns(first,
                      [lat |-> Get(first.latitude), lon |-> Get(first.longitude),
                       location |-> full_name(first, name)], NoWeather)

----------------------------------------------------------------------------
(* search_by_plz.  A Nominatim result is held in the same record as a name
   result: latitude/longitude are its "lat"/"lon" strings, cc its
   address.country_code, name its address.city, country its address.country;
   address.postcode is absent, so the postal code asked for is shown *)

\* str.upper() on the country codes that occur
Upper(c) ==
    CASE c = "de" -> "DE"
      [] c = "at" -> "AT"
      [] OTHER -> c

\* variant: the country codes as they come, not upper-cased
countries_raw(results) == {results[i].cc : i \in 1 .. Len(results)}

\* line 294: the set of upper-cased country codes, "" for a result without one
countries(results) == {Upper(results[i].cc) : i \in 1 .. Len(results)}

\* float(x) of Python: the number, or the exception raised
\* (a subscript of an absent key has raised KeyError before float is called)
PyFloat(v) ==
    CASE v.t = "num" -> [exc |-> "", v |-> v]
      [] v.t = "nan" -> [exc |-> "", v |-> v]
      [] v.t = "str" /\ v.s = "52" -> [exc |-> "", v |-> Num(52)]
      [] v.t = "str" /\ v.s = "13" -> [exc |-> "", v |-> Num(13)]
      [] v.t = "str" /\ v.s = "3" -> [exc |-> "", v |-> Num(3)]
      [] v.t = "str" -> [exc |-> "ValueError", v |-> Null]
      [] v.t = "missing" -> [exc |-> "KeyError", v |-> Null]
      [] OTHER -> [exc |-> "TypeError", v |-> Null]

\* lines 306-314
plz_full_name(r, plz) ==
    (IF r.name # "" THEN <<plz, " ", r.name>> ELSE <<plz>>)
    \o (IF r.country # "" THEN <<", ", r.country>> ELSE <<>>)

search_by_plz(resp, plz, country_code, lang) ==
    IF resp.exc # "none"
    THEN LET h == HandleRequestError(resp.exc, "timeout_plz") IN
         error_exit(h.key, h.code, lang)
    ELSE IF ~resp.json THEN error_exit("invalid_response", EXIT_API_ERROR, lang)
    ELSE IF resp.results = <<>>
    THEN error_exit("plz_not_found", EXIT_LOCATION_NOT_FOUND, lang)
    ELSE IF country_code = "" /\ Len(resp.results) > 1
            /\ Cardinality(countries(resp.results)) > 1
    THEN Exits(EXIT_AMBIGUOUS,
               <<Text("stderr", "ambiguous_plz", lang, FALSE),
                 Text("stderr", "use_country", lang, FALSE)>>, NoResult)
    ELSE LET r == resp.results[1]
             lat == PyFloat(r.latitude)
             lon == PyFloat(r.longitude)
         IN  IF lat.exc # "" \/ lon.exc # ""
             THEN Raises(r)
             ELSE Returns(r, [lat |-> lat.v, lon |-> lon.v,
                              location |-> plz_full_name(r, plz)], NoWeather)

----------------------------------------------------------------------------
(* get_weather *)

get_weather(resp, lang) ==
    IF resp.exc # "none"
    THEN LET h == HandleRequestError(resp.exc, "timeout_weather") IN
         error_exit(h.key, h.code, lang)
    ELSE IF ~resp.json THEN error_exit("invalid_response", EXIT_API_ERROR, lang)
    ELSE IF "daily" \notin DOMAIN resp.data \/ "hourly" \notin DOMAIN resp.data
    THEN error_exit("incomplete_data", EXIT_API_ERROR, lang)
    ELSE Returns(NoResult, NoCoords, resp.data)

----------------------------------------------------------------------------
(* Presenter *)

HoursPerDay == 24

KnownCodes == {0, 1, 2, 3, 45, 48, 51, 53, 55, 56, 57, 61, 63, 65, 66, 67,
               71, 73, 75, 77, 80, 81, 82, 85, 86, 95, 96, 99}

Min(a, b) == IF a < b THEN a ELSE b
Max(a, b) == IF a > b THEN a ELSE b

safe_float(v) ==
    IF v.t = "null" THEN Num(0)
    ELSE LET f == PyFloat(v) IN
         IF f.exc \in {"TypeError", "ValueError"} THEN Num(0) ELSE f.v

\* get_weather_desc: the table entry of the language, or "Code {code}";
\* a list is unhashable and makes the lookup raise TypeError
get_weather_desc(code, lang) ==
    [exc |-> IF code.t = "list" THEN "TypeError" ELSE "",
     known |-> code.t = "num" /\ code.n \in KnownCodes,
     code |-> code, lang |-> lang]

\* datetime.fromisoformat on the strings that occur: date and time of day
IsoStrings == {"2024-01-15", "2024-01-16", "2024-01-15T13:00"}
IsoDate(x) == IF x = "2024-01-16" THEN "16.01.2024" ELSE "15.01.2024"
IsoWeekday(x) == IF x = "2024-01-16" THEN 1 ELSE 0
IsoTime(x) == IF x = "2024-01-15T13:00" THEN "13:00" ELSE "00:00"
IsIso(v) == v.t = "str" /\ v.s \in IsoStrings

\* get_weekday
Weekday(idx, lang) ==
    IF lang = "de"
    THEN <<"Montag", "Dienstag", "Mittwoch", "Donnerstag", "Freitag", "Samstag",
           "Sonntag">>[idx + 1]
    ELSE <<"Monday", "Tuesday", "Wednesday", "Thursday", "Friday", "Saturday",
           "Sunday">>[idx + 1]

\* format_weather, lines 374-378: the date line of a day
FormatDate(v, lang) ==
    IF IsIso(v)
    THEN [kind |-> "date", text |-> IsoDate(v.s), weekday |-> Weekday(IsoWeekday(v.s), lang),
          v |-> v]
    ELSE IF Truthy(v)
    THEN [kind |-> "raw", text |-> "", weekday |-> "", v |-> v]
    ELSE [kind |-> "unknown", text |-> lang, weekday |-> "", v |-> Null]

\* format_weather, lines 406-409: the time of an hourly line
FormatHour(v) ==
    IF IsIso(v) THEN [kind |-> "time", text |-> IsoTime(v.s)]
    ELSE [kind |-> "placeholder", text |-> "??:??"]

\* section[key][i - 1]: the value, or KeyError / IndexError
Read(sec, name, key, i) ==
    IF key \notin DOMAIN sec
    THEN [exc |-> "KeyError", at |-> name, key |-> key, index |-> i - 1, v |-> Null]
    ELSE IF i > Len(sec[key])
    THEN [exc |-> "IndexError", at |-> name, key |-> key, index |-> i - 1, v |-> Null]
    ELSE [exc |-> "", at |-> "", key |-> "", index |-> 0, v |-> sec[key][i]]

NoErr == [exc |-> "", at |-> "", key |-> "", index |-> 0]
Err(exc, at, key, index) == [exc |-> exc, at |-> at, key |-> key, index |-> index]
ErrOf(r) == Err(r.exc, r.at, r.key, r.index)
DescErr(d, at, i) == IF d.exc = "" THEN NoErr ELSE Err(d.exc, at, "weather_code", i - 1)

\* the first exception of a sequence of evaluations
FirstErr(es) ==
    IF \E i \in 1 .. Len(es) : es[i].exc # ""
    THEN es[CHOOSE i \in 1 .. Len(es) :
                /\ es[i].exc # ""
                /\ \A j \in 1 .. (i - 1) : es[j].exc = ""]
    ELSE NoErr

\* range(lo, hi) of Python as a sequence of indices counted from 1: lo+1 .. hi,
\* empty when hi <= lo
PyRange(lo, hi) == IF hi <= lo THEN <<>> ELSE [k \in 1 .. (hi - lo) |-> lo + k]

\* range(start_hour, min(end_hour, len(hourly["time"])))
HourRange(hourly, d) ==
    LET start_hour == (d - 1) * HoursPerDay
        end_hour == start_hour + HoursPerDay
    IN  PyRange(start_hour, Min(end_hour, Len(hourly["time"])))

NotRun == [state |-> "notrun", err |-> NoErr, title |-> <<>>, days |-> <<>>]
Raised(e) ==
    [state |-> "raised", err |-> e, title |-> <<>>, days |-> <<>>]
Returned(title, days) ==
    [state |-> "returned", err |-> NoErr, title |-> title, days |-> days]

(* format_weather *)

\* lines 405-417: one hourly line
TextHour(hourly, i, lang) ==
    LET temp == Read(hourly, "hourly", "temperature_2m", i)
        prec == Read(hourly, "hourly", "precipitation", i)
        code == Read(hourly, "hourly", "weather_code", i)
        desc == get_weather_desc(code.v, lang)
        hour_precip == safe_float(prec.v)
    IN  [err |-> FirstErr(<<ErrOf(temp), ErrOf(prec), ErrOf(code),
                            DescErr(desc, "hourly", i)>>),
         time |-> FormatHour(hourly["time"][i]),
         temperature |-> safe_float(temp.v),
         precipitation |-> hour_precip,
         precip_shown |-> hour_precip.t = "num" /\ hour_precip.n > 0,
         desc |-> desc]

\* lines 373-417: the block of one day
TextDay(data, d, lang) ==
    LET daily == data["daily"]
        hourly == data["hourly"]
        code == Read(daily, "daily", "weather_code", d)
        desc == get_weather_desc(code.v, lang)
        tmin == Read(daily, "daily", "temperature_2m_min", d)
        tmax == Read(daily, "daily", "temperature_2m_max", d)
        prec == Read(daily, "daily", "precipitation_sum", d)
        wind == Read(daily, "daily", "wind_speed_10m_max", d)
        dayErr == FirstErr(<<ErrOf(code), DescErr(desc, "daily", d), ErrOf(tmin), ErrOf(tmax),
                             ErrOf(prec), ErrOf(wind)>>)
        noTime == "time" \notin DOMAIN hourly
        hours == IF dayErr.exc # "" \/ noTime THEN <<>>
                 ELSE LET idx == HourRange(hourly, d)
                      IN  [k \in 1 .. Len(idx) |-> TextHour(hourly, idx[k], lang)]
    IN  [err |-> IF dayErr.exc # "" THEN dayErr
                 ELSE IF noTime THEN Err("KeyError", "hourly", "time", 0)
                 ELSE FirstErr([k \in 1 .. Len(hours) |-> hours[k].err]),
         date |-> FormatDate(daily["time"][d], lang),
         desc |-> desc,
         temperature_min |-> safe_float(tmin.v),
         temperature_max |-> safe_float(tmax.v),
         precipitation_sum |-> safe_float(prec.v),
         wind_speed_max |-> safe_float(wind.v),
         hourly |-> hours]

\* "\n".join(lines) takes strings only: a date line that is the payload's own
\* value, when that value is no string, makes it raise TypeError
JoinErr(days) ==
    IF \E d \in 1 .. Len(days) : days[d].date.kind = "raw" /\ days[d].date.v.t # "str"
    THEN Err("TypeError", "join", "time",
             (CHOOSE d \in 1 .. Len(days) :
                 /\ days[d].date.kind = "raw" /\ days[d].date.v.t # "str"
                 /\ \A e \in 1 .. (d - 1) :
                        ~(days[e].date.kind = "raw" /\ days[e].date.v.t # "str")) - 1)
    ELSE NoErr

format_weather(data, location, lang) ==
    IF "time" \notin DOMAIN data["daily"]
    THEN Raised(Err("KeyError", "daily", "time", 0))
    ELSE LET num_days == Len(data["daily"]["time"])
             days == [d \in 1 .. num_days |-> TextDay(data, d, lang)]
             e == FirstErr([d \in 1 .. num_days |-> days[d].err] \o <<JoinErr(days)>>)
         IN  IF e.exc # "" THEN Raised(e)
             ELSE Returned(<<lang, location>>, days)

(* format_weather_json *)

\* lines 447-455: one hourly entry
JsonHour(hourly, i, lang) ==
    LET code == Read(hourly, "hourly", "weather_code", i)
        temp == Read(hourly, "hourly", "temperature_2m", i)
        prec == Read(hourly, "hourly", "precipitation", i)
        desc == get_weather_desc(code.v, lang)
    IN  [err |-> FirstErr(<<ErrOf(code), ErrOf(temp), ErrOf(prec),
                            DescErr(desc, "hourly", i)>>),
         time |-> hourly["time"][i],
         temperature |-> safe_float(temp.v),
         precipitation |-> safe_float(prec.v),
         weather_code |-> code.v,
         weather_description |-> desc]

\* lines 430-457: the entry of one day
JsonDay(data, d, lang) ==
    LET daily == data["daily"]
        hourly == data["hourly"]
        code == Read(daily, "daily", "weather_code", d)
        desc == get_weather_desc(code.v, lang)
        tmin == Read(daily, "daily", "temperature_2m_min", d)
        tmax == Read(daily, "daily", "temperature_2m_max", d)
        prec == Read(daily, "daily", "precipitation_sum", d)
        wind == Read(daily, "daily", "wind_speed_10m_max", d)
        dayErr == FirstErr(<<ErrOf(code), DescErr(desc, "daily", d), ErrOf(tmin), ErrOf(tmax),
                             ErrOf(prec), ErrOf(wind)>>)
        noTime == "time" \notin DOMAIN hourly
        hours == IF dayErr.exc # "" \/ noTime THEN <<>>
                 ELSE LET idx == HourRange(hourly, d)
                      IN  [k \in 1 .. Len(idx) |-> JsonHour(hourly, idx[k], lang)]
    IN  [err |-> IF dayErr.exc # "" THEN dayErr
                 ELSE IF noTime THEN Err("KeyError", "hourly", "time", 0)
                 ELSE FirstErr([k \in 1 .. Len(hours) |-> hours[k].err]),
         date |-> daily["time"][d],
         weather_code |-> code.v,
         weather_description |-> desc,
         temperature_min |-> safe_float(tmin.v),
         temperature_max |-> safe_float(tmax.v),
         precipitation_sum |-> safe_float(prec.v),
         wind_speed_max |-> safe_float(wind.v),
         hourly |-> hours]

format_weather_json(data, location, lang) ==
    IF "time" \notin DOMAIN data["daily"]
    THEN Raised(Err("KeyError", "daily", "time", 0))
    ELSE LET num_days == Len(data["daily"]["time"])
             days == [d \in 1 .. num_days |-> JsonDay(data, d, lang)]
             e == FirstErr([d \in 1 .. num_days |-> days[d].err])
         IN  IF e.exc # "" THEN Raised(e)
             ELSE Returned(<<location>>, days)

----------------------------------------------------------------------------
(* main, lines 466-477: scan for the language *)
PreParse ==
    /\ pc = "scan"
    /\ _lang' = PreScan(argv, 1, _lang)
    /\ pc' = "parse"
    /\ UNCHANGED <<argv, parser, args, session, requests, response, result,
                   coords, weather, textOut, jsonOut, emitted, exitCode>>
(* main, lines 479-508: build the parser, parse, pick the language, reject a
   command line without a place, create the session *)
ParseArgs ==
    /\ pc = "parse"
    /\ parser' = _lang
    /\ LET ns == parse_args(argv) IN
       /\ args' = ns
       /\ IF ns.help
          THEN /\ emitted' = Append(emitted, Text("stdout", "help", _lang, FALSE))
               /\ exitCode' = EXIT_OK
               /\ pc' = "exit"
               /\ UNCHANGED <<_lang, session>>
          ELSE IF ~ns.ok
          THEN /\ emitted' = Append(emitted, Text("stderr", "usage", _lang, FALSE))
               /\ exitCode' = EXIT_ARGPARSE
               /\ pc' = "exit"
               /\ UNCHANGED <<_lang, session>>
          ELSE /\ _lang' = ns.lang
               /\ IF ns.ort = "" /\ ns.plz = ""
                  THEN /\ emitted' = Append(emitted, Text("stdout", "help", _lang, FALSE))
                       /\ exitCode' = EXIT_INVALID_INPUT
                       /\ pc' = "exit"
                       /\ UNCHANGED session
                  ELSE /\ emitted' = IF ns.ort # "" /\ ns.plz # ""
                                     THEN Append(emitted,
                                                 Text("stderr", "note_plz_used", ns.lang, FALSE))
                                     ELSE emitted
                       /\ session' = create_session(session)
                       /\ exitCode' = Running
                       /\ pc' = "geocode"
    /\ UNCHANGED <<argv, requests, response, result, coords, weather, textOut, jsonOut>>
----------------------------------------------------------------------------
(* Inputs that are enumerated *)

SeqsUpTo(S, n) == UNION {[1 .. k -> S] : k \in 0 .. n}

\* command lines of the pipeline
CommandLines ==
    {<<"Berlin">>, <<"Berlin", "-j">>, <<"-Lde", "Berlin">>, <<"--lang", "de", "Berlin">>,
     <<"--plz=10115">>, <<"--plz=10115", "--land=de">>, <<"Berlin", "--plz=10115", "-j">>,
     <<>>, <<"-h">>, <<"Berlin", "en">>}

\* Open-Meteo geocoding results: latitude or longitude may be absent
NameResults ==
    {[latitude |-> la, longitude |-> lo, name |-> "Berlin",
      country |-> IF lo = Num(13) THEN "Germany" ELSE "", cc |-> ""] :
        la \in {Missing, NaN, Num(52)}, lo \in {Missing, Num(0), Num(13)}}

\* Nominatim results: "lat" may be absent or no number, the address may lack
\* a country code
PlzResults ==
    {[latitude |-> la, longitude |-> Str("13"),
      name |-> IF c = "de" THEN "Berlin" ELSE "",
      country |-> IF c = "at" THEN "Austria" ELSE "", cc |-> c] :
        la \in {Missing, Str("52"), Str("abc")}, c \in {"", "de", "DE", "at"}}

DailyKeys == {"time", "weather_code", "temperature_2m_min", "temperature_2m_max",
              "precipitation_sum", "wind_speed_10m_max"}
HourlyKeys == {"time", "temperature_2m", "precipitation", "weather_code"}

\* kinds of content of a payload: 1 well-formed, the others hold values the
\* forecast service is not expected to send
Flavours == 1 .. 6

Val(f, sec, key, i) ==
    IF key = "time"
    THEN CASE f = 1 -> IF sec = "hourly" THEN Str("2024-01-15T13:00")
                       ELSE IF i = 1 THEN Str("2024-01-15") ELSE Str("2024-01-16")
           [] f = 2 -> Str("abc")
           [] f = 3 -> Null
           [] f = 4 -> Str("")
           [] f = 5 -> Num(5)
           [] OTHER -> Str("2024-01-15")
    ELSE IF key = "weather_code"
    THEN CASE f = 1 -> IF i % 2 = 1 THEN Num(3) ELSE Num(61)
           [] f = 2 -> Num(100)
           [] f = 3 -> Null
           [] f = 4 -> Str("3")
           [] f = 5 -> Num(0)
           [] OTHER -> List
    ELSE CASE f = 1 -> Num(i % 5)
           [] f = 2 -> Null
           [] f = 3 -> Str("abc")
           [] f = 4 -> Str("3")
           [] f = 5 -> Num(0 - 2)
           [] OTHER -> List

NoDefect == [kind |-> "none", sec |-> "", key |-> ""]
Defects ==
    {NoDefect}
    \cup [kind : {"drop"}, sec : {"daily"}, key : DailyKeys]
    \cup [kind : {"drop"}, sec : {"hourly"}, key : HourlyKeys]
    \cup [kind : {"short"}, sec : {"daily"}, key : DailyKeys \ {"time"}]
    \cup [kind : {"short"}, sec : {"hourly"}, key : HourlyKeys \ {"time"}]

Section(keys, sec, n, f, x) ==
    LET dropped == IF x.kind = "drop" /\ x.sec = sec THEN {x.key} ELSE {}
        len(k) == IF x.kind = "short" /\ x.sec = sec /\ x.key = k THEN Max(n - 1, 0) ELSE n
    IN  [k \in keys \ dropped |-> [i \in 1 .. len(k) |-> Val(f, sec, k, i)]]

Payload(nd, nh, f, x) ==
    [daily |-> Section(DailyKeys, "daily", nd, f, x),
     hourly |-> Section(HourlyKeys, "hourly", nh, f, x)]

\* lengths of hourly.time around the day boundaries
HourlyLengths ==
    {h \in 0 .. (HoursPerDay * MaxDays + 1) : h % HoursPerDay \in {0, 1, HoursPerDay - 1}}

Payloads ==
    {Payload(nd, nh, f, x) : nd \in 0 .. MaxDays, nh \in HourlyLengths, f \in Flavours,
                             x \in Defects}

\* forecast bodies of the pipeline
PipelinePayloads ==
    {Payload(nd, nh, f, x) : nd \in 0 .. 1, nh \in {0, HoursPerDay + 1}, f \in Flavours,
         x \in {NoDefect, [kind |-> "drop", sec |-> "daily", key |-> "time"],
                [kind |-> "short", sec |-> "hourly", key |-> "precipitation"]}}

ForecastBodies ==
    {[json |-> FALSE, data |-> NoWeather]}
    \cup {[json |-> TRUE, data |-> [k \in {"daily"} |-> <<>>]],
          [json |-> TRUE, data |-> [k \in {"hourly"} |-> <<>>]]}
    \cup {[json |-> TRUE, data |-> w] : w \in PipelinePayloads}

GeoBodies(R) ==
    {[json |-> FALSE, results |-> <<>>]}
    \cup {[json |-> TRUE, results |-> rs] : rs \in SeqsUpTo(R, MaxResults)}

Outcomes == {SessionGet(tr) : tr \in Transports}

----------------------------------------------------------------------------
(* The calls of main, lines 510-526.  A function that leaves through
   sys.exit or an exception unwinds main through its finally clause *)

\* variant: main without the finally clause, the session is left open
Leave_no_finally(o, next) ==
    /\ emitted' = emitted \o o.out
    /\ session' = session
    /\ IF o.how = "return"
       THEN /\ pc' = next
            /\ exitCode' = Running
       ELSE /\ pc' = "exit"
            /\ exitCode' = o.code

Leave(o, next) ==
    /\ emitted' = emitted \o o.out
    /\ IF o.how = "return"
       THEN /\ pc' = next
            /\ exitCode' = Running
            /\ session' = session
       ELSE /\ pc' = "exit"
            /\ exitCode' = o.code
            /\ session' = SessionClose(session)

\* a call on the session: which session it is sent on, and whether that one is closed
Request(url) == [url |-> url, session |-> session.created, closed |-> session.closed > 0]

\* line 514
SearchByName ==
    /\ pc = "geocode"
    /\ args.plz = ""
    /\ \E net \in Outcomes :
         \E body \in IF net.exc = "none" THEN GeoBodies(NameResults)
                      ELSE {[json |-> FALSE, results |-> <<>>]} :
            LET resp == [exc |-> net.exc, status |-> net.status, json |-> body.json,
                         results |-> body.results, data |-> NoWeather]
                o == search_by_name(resp, args.ort, _lang)
            IN  /\ response' = resp
                /\ requests' = Append(requests, Request("GEOCODING_URL"))
                /\ result' = o.result
                /\ coords' = o.coords
                /\ Leave(o, "forecast")
    /\ UNCHANGED <<argv, _lang, parser, args, weather, textOut, jsonOut>>

\* line 512
SearchByPlz ==
    /\ pc = "geocode"
    /\ args.plz # ""
    /\ \E net \in Outcomes :
         \E body \in IF net.exc = "none" THEN GeoBodies(PlzResults)
                      ELSE {[json |-> FALSE, results |-> <<>>]} :
            LET resp == [exc |-> net.exc, status |-> net.status, json |-> body.json,
                         results |-> body.results, data |-> NoWeather]
                o == search_by_plz(resp, args.plz, args.land, _lang)
            IN  /\ response' = resp
                /\ requests' = Append(requests, Request("NOMINATIM_URL"))
                /\ result' = o.result
                /\ coords' = o.coords
                /\ Leave(o, "forecast")
    /\ UNCHANGED <<argv, _lang, parser, args, weather, textOut, jsonOut>>

\* line 516
GetWeather ==
    /\ pc = "forecast"
    /\ \E net \in Outcomes :
         \E body \in IF net.exc = "none" THEN ForecastBodies
                      ELSE {[json |-> FALSE, data |-> NoWeather]} :
            LET resp == [exc |-> net.exc, status |-> net.status, json |-> body.json,
                         results |-> <<>>, data |-> body.data]
                o == get_weather(resp, _lang)
            IN  /\ response' = resp
                /\ requests' = Append(requests, Request("FORECAST_URL"))
                /\ weather' = o.weather
                /\ Leave(o, "output")
    /\ UNCHANGED <<argv, _lang, parser, args, result, coords, textOut, jsonOut>>

\* the end of main: the rendering is printed and main returns EXIT_OK, or the
\* formatter's exception ends the process; the session is closed either way
Finish(r, key) ==
    /\ pc' = "exit"
    /\ session' = SessionClose(session)
    /\ IF r.state = "raised"
       THEN /\ exitCode' = EXIT_UNCAUGHT
            /\ emitted' = Append(emitted, Text("stderr", "traceback", "none", FALSE))
       ELSE /\ exitCode' = EXIT_OK
            /\ emitted' = Append(emitted, Text("stdout", key, _lang, FALSE))

\* lines 520-521
PrintText ==
    /\ pc = "output"
    /\ ~args.json
    /\ textOut' = format_weather(weather, coords.location, _lang)
    /\ Finish(textOut', "weather_for")
    /\ UNCHANGED <<argv, _lang, parser, args, requests, response, result, coords, weather,
                   jsonOut>>

\* lines 518-519
PrintJson ==
    /\ pc = "output"
    /\ args.json
    /\ jsonOut' = format_weather_json(weather, coords.location, _lang)
    /\ Finish(jsonOut', "json")
    /\ UNCHANGED <<argv, _lang, parser, args, requests, response, result, coords, weather,
                   textOut>>

----------------------------------------------------------------------------
(* The two formatters applied to one payload *)

FormatText ==
    /\ pc = "format"
    /\ textOut.state = "notrun"
    /\ textOut' = format_weather(weather, coords.location, _lang)
    /\ UNCHANGED <<pc, argv, _lang, parser, args, session, requests, response, result,
                   coords, weather, jsonOut, emitted, exitCode>>

FormatJson ==
    /\ pc = "format"
    /\ jsonOut.state = "notrun"
    /\ jsonOut' = format_weather_json(weather, coords.location, _lang)
    /\ UNCHANGED <<pc, argv, _lang, parser, args, session, requests, response, result,
                   coords, weather, textOut, emitted, exitCode>>

----------------------------------------------------------------------------
(* Specifications *)

Start(av) ==
    /\ pc = "scan"
    /\ argv = av
    /\ _lang = "en"
    /\ parser = "none"
    /\ args = NoArgs
    /\ session = [created |-> 0, closed |-> 0]
    /\ requests = <<>>
    /\ response = NoResponse
    /\ result = NoResult
    /\ coords = NoCoords
    /\ weather = NoWeather
    /\ textOut = NotRun
    /\ jsonOut = NotRun
    /\ emitted = <<>>
    /\ exitCode = Running

\* a run of the program on one of the command lines
Init == \E av \in CommandLines : Start(av)

Next ==
    \/ PreParse
    \/ ParseArgs
    \/ SearchByName
    \/ SearchByPlz
    \/ GetWeather
    \/ PrintText
    \/ PrintJson

Spec == Init /\ [][Next]_vars

\* the start of the program on every command line of up to MaxArgs tokens
InitLang == \E av \in SeqsUpTo(Tokens, MaxArgs) : Start(av)

NextLang == PreParse \/ ParseArgs

SpecLang == InitLang /\ [][NextLang]_vars

\* the formatters on every payload
InitFmt ==
    /\ pc = "format"
    /\ argv = <<>>
    /\ _lang \in {"en", "de"}
    /\ parser = "none"
    /\ args = NoArgs
    /\ session = [created |-> 0, closed |-> 0]
    /\ requests = <<>>
    /\ response = NoResponse
    /\ result = NoResult
    /\ coords = [lat |-> Num(52), lon |-> Num(13), location |-> <<"Berlin", ", ", "Germany">>]
    /\ weather \in Payloads
    /\ textOut = NotRun
    /\ jsonOut = NotRun
    /\ emitted = <<>>
    /\ exitCode = Running

NextFmt == FormatText \/ FormatJson

SpecFmt == InitFmt /\ [][NextFmt]_vars
----------------------------------------------------------------------------
(* Properties *)

\* the state right after search_by_name read a decodable body
NameSearched ==
    /\ Len(requests) = 1
    /\ requests[1].url = "GEOCODING_URL"
    /\ response.exc = "none"
    /\ response.json

\* the state right after search_by_plz read a decodable, non-empty body
PlzSearched ==
    /\ Len(requests) = 1
    /\ requests[1].url = "NOMINATIM_URL"
    /\ response.exc = "none"
    /\ response.json
    /\ response.results # <<>>

NoForecastRequest == \A i \in 1 .. Len(requests) : requests[i].url # "FORECAST_URL"

SomePairDiffers(rs) ==
    \E i, j \in 1 .. Len(rs) :
        rs[i].latitude # rs[j].latitude \/ rs[i].longitude # rs[j].longitude

\* C1: a name search that gets more than one result, two of which (any two)
\* differ in latitude or longitude, ends the run with exit code 5; no
\* coordinates are handed back and no forecast request is issued.
C1_AmbiguousName ==
    (NameSearched /\ Len(response.results) > 1 /\ SomePairDiffers(response.results))
        => /\ pc = "exit"
           /\ exitCode = EXIT_AMBIGUOUS
           /\ coords = NoCoords
           /\ NoForecastRequest

\* three results, the first two alike, the third different: exit code 5
C1_Witness ==
    /\ NameSearched
    /\ Len(response.results) = 3
    /\ response.results[1] = response.results[2]
    /\ response.results[3].longitude # response.results[2].longitude
    /\ response.results[3].latitude = response.results[2].latitude
    /\ response.results[1].latitude.t = "num"
    /\ exitCode = EXIT_AMBIGUOUS

AllSameCoords(rs) == ~SomePairDiffers(rs)

Present(v) == v.t \notin {"missing", "null"}

DisplayName(r) ==
    IF r.country = "" THEN <<r.name>> ELSE <<r.name, ", ", r.country>>

\* C2 as stated: a non-empty name-search response whose results all carry the
\* same latitude and the same longitude (absent ones included) makes the
\* geocoder return the first result's coordinates and display name, and never
\* ends the run with an exit code.
C2_Original ==
    (NameSearched /\ response.results # <<>> /\ AllSameCoords(response.results))
        => /\ pc = "forecast"
           /\ exitCode = Running
           /\ coords = [lat |-> response.results[1].latitude,
                        lon |-> response.results[1].longitude,
                        location |-> DisplayName(response.results[1])]

\* C2 amended: when the shared latitude and longitude are both present and
\* equal to themselves, the geocoder returns the first result's coordinates
\* and display name whatever the number of results; when the shared latitude or
\* longitude is absent (and the other is no NaN), the run ends with exit code 3
\* and the "missing coordinates" error.
C2_SameCoordinates ==
    (NameSearched /\ response.results # <<>> /\ AllSameCoords(response.results))
        => LET first == response.results[1] IN
           /\ (first.latitude.t = "num" /\ first.longitude.t = "num")
                 => /\ pc = "forecast"
                    /\ exitCode = Running
                    /\ coords = [lat |-> first.latitude, lon |-> first.longitude,
                                 location |-> DisplayName(first)]
           /\ ((~Present(first.latitude) \/ ~Present(first.longitude))
                    /\ first.latitude.t # "nan" /\ first.longitude.t # "nan")
                 => /\ pc = "exit"
                    /\ exitCode = EXIT_API_ERROR
                    /\ emitted[Len(emitted)] = ErrorText("missing_coords", _lang)

\* three results at the same place on the zero meridian: the first is returned
C2_Witness ==
    /\ NameSearched
    /\ Len(response.results) = 3
    /\ AllSameCoords(response.results)
    /\ response.results[1].latitude = Num(52)
    /\ response.results[1].longitude = Num(0)
    /\ pc = "forecast"
    /\ coords.lon = Num(0)

UpperCode(c) == IF c = "de" THEN "DE" ELSE IF c = "at" THEN "AT" ELSE c

DistinctCountries(rs) == {UpperCode(rs[i].cc) : i \in 1 .. Len(rs)}

\* C3: a postal search ends with exit code 5 exactly when no country filter
\* was given and the results carry more than one distinct upper-cased country
\* code; in every other case the first result is the one the run goes on
\* with, however many results there are.
C3_AmbiguousPlz ==
    PlzSearched
        => LET ambiguous == /\ args.land = ""
                            /\ Cardinality(DistinctCountries(response.results)) > 1
           IN  /\ (exitCode = EXIT_AMBIGUOUS) <=> ambiguous
               /\ ~ambiguous => result = response.results[1]
               /\ (~ambiguous /\ pc = "forecast")
                     => /\ coords.lat = Num(52)
                        /\ response.results[1].latitude = Str("52")
                        /\ coords.location[1] = args.plz

\* three results of one country, spelled "de" and "DE", no filter: the run
\* goes on with the first
C3_Witness ==
    /\ PlzSearched
    /\ args.land = ""
    /\ Len(response.results) = 3
    /\ {response.results[i].cc : i \in 1 .. 3} = {"de", "DE"}
    /\ pc = "forecast"
    /\ result = response.results[1]
HourlyTotal == IF "time" \in DOMAIN weather["hourly"] THEN Len(weather["hourly"]["time"]) ELSE 0

\* C4 as stated: in either rendering, day d (counted from 0) has exactly
\* min(24, total_hourly_length - 24*d) hourly entries, and no read of an
\* hourly array goes past the end of that array.
C4_HourlySlice ==
    \A r \in {textOut, jsonOut} :
        /\ r.state = "returned"
              => \A d \in 1 .. Len(r.days) :
                    Len(r.days[d].hourly)
                        = Min(HoursPerDay, HourlyTotal - HoursPerDay * (d - 1))
        /\ ~(r.state = "raised" /\ r.err.exc = "IndexError" /\ r.err.at = "hourly")

\* the values a rendering of a day shows
TextDayValues(t) ==
    <<t.desc, t.temperature_min, t.temperature_max, t.precipitation_sum, t.wind_speed_max,
      [h \in 1 .. Len(t.hourly) |-> <<t.hourly[h].temperature, t.hourly[h].desc>>]>>
JsonDayValues(j) ==
    <<j.weather_description, j.temperature_min, j.temperature_max, j.precipitation_sum,
      j.wind_speed_max,
      [h \in 1 .. Len(j.hourly) |->
          <<j.hourly[h].temperature, j.hourly[h].weather_description>>]>>

\* C5 as stated: for every payload the text and the JSON rendering describe
\* the same number of days, the same weather description per day, the same
\* number of hourly entries per day and the same converted numbers.
C5_CrossFormat ==
    (textOut.state # "notrun" /\ jsonOut.state # "notrun")
        => /\ textOut.state = jsonOut.state
           /\ Len(textOut.days) = Len(jsonOut.days)
           /\ \A d \in 1 .. Len(textOut.days) :
                 /\ TextDayValues(textOut.days[d]) = JsonDayValues(jsonOut.days[d])
                 /\ \A h \in 1 .. Len(textOut.days[d].hourly) :
                       textOut.days[d].hourly[h].precip_shown
                           => textOut.days[d].hourly[h].precipitation
                                  = jsonOut.days[d].hourly[h].precipitation

\* the call that has just failed or returned
LastCall == requests[Len(requests)].url

\* C6 as stated: a call that ends in a timeout or a connection failure ends
\* the run with exit code 2, and a call whose outcome is an HTTP error status,
\* the retried ones included, ends it with exit code 3.
C6_ExitCodeByKind ==
    (requests # <<>> /\ response.exc \notin {"none", "unset"})
        => /\ response.exc \in {"Timeout", "ConnectionError"}
                 => exitCode = EXIT_NETWORK_ERROR
           /\ response.status >= 400 => exitCode = EXIT_API_ERROR

\* a run that ended in the geocoder or in the forecast fetcher
FetchFailed ==
    /\ pc = "exit"
    /\ requests # <<>>
    /\ textOut.state = "notrun"
    /\ jsonOut.state = "notrun"

\* the exit code of the kind of failure, read off the response
KindCode ==
    IF response.exc = "HTTPError" THEN {EXIT_API_ERROR}
    ELSE IF response.exc = "RetryError" THEN {EXIT_NETWORK_ERROR, EXIT_API_ERROR}
    ELSE IF response.exc # "none" THEN {EXIT_NETWORK_ERROR}
    ELSE IF ~response.json THEN {EXIT_API_ERROR}
    ELSE IF LastCall = "FORECAST_URL" THEN {EXIT_API_ERROR}
    ELSE IF response.results = <<>> THEN {EXIT_LOCATION_NOT_FOUND}
    ELSE IF exitCode = EXIT_AMBIGUOUS THEN {EXIT_AMBIGUOUS}
    ELSE {EXIT_API_ERROR}

\* C7 as stated: every failure of the geocoder or the forecast fetcher ends
\* the run with a message on stderr that carries the localized error label,
\* and with the exit code of its kind.
C7_TerminalFailure ==
    FetchFailed
        => /\ exitCode \in KindCode
           /\ emitted # <<>>
           /\ emitted[Len(emitted)].stream = "stderr"
           /\ emitted[Len(emitted)].label
           /\ emitted[Len(emitted)].lang = _lang

\* C8 as stated: whenever the command line is one the parser accepts, every
\* user-facing text, the help strings held by the parser included, is in the
\* language the parser resolves for --lang/-L.
C8_LanguageFirst ==
    LET ns == parse_args(argv) IN
    (ns.ok /\ parser # "none")
        => /\ parser = ns.lang
           /\ \A i \in 1 .. Len(emitted) : emitted[i].lang = ns.lang

\* C9 as stated: on every payload with a daily and an hourly section both
\* formatters return a rendering, never an exception.
C9_PresenterNeverRaises ==
    /\ textOut.state # "raised"
    /\ jsonOut.state # "raised"

\* C10: the session is created at most once, every request is sent on that
\* session while it is open, and once the run has ended after creating the
\* session, the session has been closed exactly once.
C10_SessionLifecycle ==
    /\ session.created <= 1
    /\ session.closed <= session.created
    /\ \A i \in 1 .. Len(requests) :
          requests[i].session = 1 /\ ~requests[i].closed
    /\ requests # <<>> => session.created = 1
    /\ (pc = "exit" /\ session.created = 1) => session.closed = 1
    /\ pc # "exit" => session.closed = 0

\* a run that made both requests and ended on the formatter's exception,
\* with the session closed
C10_Witness ==
    /\ pc = "exit"
    /\ Len(requests) = 2
    /\ emitted[Len(emitted)].key = "traceback"
    /\ session = [created |-> 1, closed |-> 1]

\* the time values a returned text rendering has gone through
DailyTime(d) == weather["daily"]["time"][d]
HourlyTime(d, h) == weather["hourly"]["time"][HourRange(weather["hourly"], d)[h]]

\* C11 as stated: in the text rendering every daily date value that is missing
\* or is no ISO date is shown as the localized "Unknown" placeholder, every
\* hourly timestamp that is missing or is no ISO timestamp is shown as "??:??",
\* and the value of the payload itself is never shown in their place.
C11_SafePlaceholders ==
    textOut.state = "returned"
        => \A d \in 1 .. Len(textOut.days) :
              /\ ~IsIso(DailyTime(d))
                    => /\ textOut.days[d].date.kind = "unknown"
                       /\ textOut.days[d].date.text = _lang
              /\ textOut.days[d].date.kind # "raw"
              /\ \A h \in 1 .. Len(textOut.days[d].hourly) :
                    ~IsIso(HourlyTime(d, h))
                        => textOut.days[d].hourly[h].time
                               = [kind |-> "placeholder", text |-> "??:??"]
====
